---------------------------- MODULE Spec2Model ----------------------------
(***************************************************************************)
(* Clean-Architecture user service: entity, DTO, mapper, repository port   *)
(* with an in-memory and a MongoDB adapter, three use cases, two           *)
(* controllers and the response envelope.                                  *)
(*                                                                         *)
(* Conventions.  JavaScript strings that are only compared or tested for   *)
(* emptiness (name, email, role, messages) are TLA+ strings; Undefined and *)
(* Null are two tokens outside the string domains used for them.  Strings  *)
(* that are parsed (identifiers) are sequences of one-character strings.   *)
(* An identifier value is a tagged record: a JS number, a JS string or     *)
(* null.  An optional Date is a sequence: <<>> (undefined) or <<t>>.       *)
(* A thrown Error is an outcome record carrying its message.               *)
(***************************************************************************)
EXTENDS Integers, Sequences, FiniteSets, TLC

----------------------------------------------------------------------------
(* Bounds of the model *)

MaxUsers == 2       \* creates are accepted while fewer records are stored
NReq == 2           \* requests that can be in flight at the same time
MaxIdLen == 2       \* longest free-form id string a request carries

----------------------------------------------------------------------------
(* State *)

VARIABLES
    adapter,      \* the repository the composition root wired: "memory" | "mongo"
    users,        \* InMemoryUserRepository.users
    currentId,    \* InMemoryUserRepository.currentId
    docs,         \* the documents of the users collection
    nextOid,      \* ordinal of the next ObjectId the store assigns
    slots,        \* the requests in flight and their res objects
    created,      \* history: the DTOs of the successful creations, in commit order
    now,          \* the clock new Date() and Date.now read
    twin,         \* side-by-side run: the last request and its two outcomes
    serial        \* history: the in-memory store of the one-at-a-time run

vars == <<adapter, users, currentId, docs, nextOid, slots, created, now, twin, serial>>

----------------------------------------------------------------------------
(* JavaScript values *)

Undefined == "<undefined>"
Null == "<null>"

Falsy(v) == v \in {Undefined, Null, ""}

NumId(n) == [k |-> "num", n |-> n]
StrId(s) == [k |-> "str", s |-> s]
NullId == [k |-> "null"]
UndefinedId == [k |-> "undefined"]

Digits == <<"0", "1", "2", "3", "4", "5", "6", "7", "8", "9">>

IsDigit(c) == \E i \in 1..10 : Digits[i] = c

DigitVal(c) == (CHOOSE i \in 1..10 : Digits[i] = c) - 1

RECURSIVE NumberToString(_)
NumberToString(n) ==
    IF n < 10 THEN <<Digits[n + 1]>>
    ELSE NumberToString(n \div 10) \o <<Digits[(n % 10) + 1]>>

(* String(id): the text parseInt and the URL path see *)
IdToString(id) ==
    CASE id.k = "num" -> NumberToString(id.n)
      [] id.k = "str" -> id.s
      [] OTHER -> <<"n", "u", "l", "l">>

RECURSIVE SkipSpaces(_)
SkipSpaces(s) ==
    IF s # <<>> /\ Head(s) = " " THEN SkipSpaces(Tail(s)) ELSE s

RECURSIVE DigitPrefix(_)
DigitPrefix(s) ==
    IF s # <<>> /\ IsDigit(Head(s)) THEN <<Head(s)>> \o DigitPrefix(Tail(s))
    ELSE <<>>

RECURSIVE DigitsValue(_)
DigitsValue(ds) ==
    IF ds = <<>> THEN 0
    ELSE 10 * DigitsValue(SubSeq(ds, 1, Len(ds) - 1)) + DigitVal(ds[Len(ds)])

NaN == [nan |-> TRUE, n |-> 0]

(* parseInt(x), radix 10: leading white space and one sign are skipped,  *)
(* the longest run of decimal digits is read and the rest is ignored;   *)
(* no digit at all gives NaN.                                            *)
parseInt(id) ==
    LET t == SkipSpaces(IdToString(id))
        neg == t # <<>> /\ Head(t) = "-"
        u == IF t # <<>> /\ Head(t) \in {"-", "+"} THEN Tail(t) ELSE t
        ds == DigitPrefix(u)
    IN  IF ds = <<>> THEN NaN
        ELSE [nan |-> FALSE, n |-> IF neg THEN 0 - DigitsValue(ds) ELSE DigitsValue(ds)]

----------------------------------------------------------------------------
(* Domain: entity, DTO, mapper *)

(* new UserEntity(id, name, email, role, createdAt) evaluated at time t *)
UserEntity(id, name, email, role, createdAt, t) ==
    [id |-> id, name |-> name, email |-> email, role |-> role,
     createdAt |-> IF createdAt = <<>> THEN <<t>> ELSE createdAt]

(* mutation: the role is compared without regard to case or blanks *)
isAdminLoose(e) == e.role \in {"admin", "Admin", " admin", "admin "}

(* isAdmin(): this.role === 'admin' *)
isAdmin(e) == e.role = "admin"

UserDTO(id, name, email, role) ==
    [id |-> id, name |-> name, email |-> email, role |-> role]

(* mutation: the whole entity is copied into the DTO *)
toDTOWithCreatedAt(e) ==
    [id |-> e.id, name |-> e.name, email |-> e.email, role |-> e.role,
     createdAt |-> e.createdAt]

(* UserMapper.toDTO *)
toDTO(e) == UserDTO(e.id, e.name, e.email, e.role)

(* UserMapper.toEntity(data) evaluated at time t: data.createdAt is not   *)
(* passed on; an absent property reads as undefined                       *)
toEntity(data, t) == UserEntity(data.id, data.name, data.email, data.role, <<>>, t)

----------------------------------------------------------------------------
(* Port results.  A resolved promise carries val: <<>> is null, <<e>> an  *)
(* entity, and for findAll the whole array; a rejected one carries the    *)
(* error's message.                                                       *)

Resolved(v) == [st |-> "ok", val |-> v, msg |-> ""]
Rejected(m) == [st |-> "err", val |-> <<>>, msg |-> m]
NotCalled == [st |-> "none", val |-> <<>>, msg |-> ""]
Pending == [st |-> "pending", val |-> <<>>, msg |-> ""]

----------------------------------------------------------------------------
(* InMemoryUserRepository: this.users, this.currentId *)

Rehydrate(u, t) == UserEntity(u.id, u.name, u.email, u.role, u.createdAt, t)

(* mutation: ++this.currentId *)
MemNewUserPreIncrement(e, cid) == [e EXCEPT !.id = NumId(cid + 1)]

(* mutation: the record is the spread copy without an id *)
MemNewUserNoId(e, cid) == e

(* { ...userEntity, id: this.currentId++ } *)
MemNewUser(e, cid) == [e EXCEPT !.id = NumId(cid)]

(* mutation: the new record is never pushed *)
MemCreateNoPush(us, cid, e, t) ==
    [users |-> us,
     currentId |-> cid + 1,
     input |-> e,
     res |-> Resolved(<<Rehydrate(MemNewUser(e, cid), t)>>)]

(* mutation: Object.assign(userEntity, { id }) instead of the spread copy *)
MemCreateAssignsInput(us, cid, e, t) ==
    [users |-> Append(us, MemNewUser(e, cid)),
     currentId |-> cid + 1,
     input |-> MemNewUser(e, cid),
     res |-> Resolved(<<Rehydrate(MemNewUser(e, cid), t)>>)]

(* mutation: this.users.unshift(newUser) *)
MemCreateUnshift(us, cid, e, t) ==
    [users |-> <<MemNewUser(e, cid)>> \o us,
     currentId |-> cid + 1,
     input |-> e,
     res |-> Resolved(<<Rehydrate(MemNewUser(e, cid), t)>>)]

(* create(userEntity): the new store, the promise, and input, the object  *)
(* userEntity as the call leaves it (the record is a spread copy)         *)
MemCreate(us, cid, e, t) ==
    LET newUser == MemNewUser(e, cid)
    IN  [users |-> Append(us, newUser),
         currentId |-> cid + 1,
         input |-> e,
         res |-> Resolved(<<Rehydrate(newUser, t)>>)]

(* mutation: findAll hands out this.users.splice(0) *)
MemReadDrains(us, cid) == [users |-> <<>>, currentId |-> cid]

(* this.users and this.currentId as findAll() or findById(id) leaves them *)
MemReadLeaves(us, cid) == [users |-> us, currentId |-> cid]

(* mutation: findAll lists the newest record first *)
MemFindAllNewestFirst(us, t) ==
    Resolved([i \in 1..Len(us) |-> Rehydrate(us[Len(us) + 1 - i], t)])

(* findAll(): this.users.map(u => new UserEntity(...)) *)
MemFindAll(us, t) == Resolved([i \in 1..Len(us) |-> Rehydrate(us[i], t)])

(* mutation: u.id === id, without parseInt *)
MemMatchesStrict(u, id) == u.id = id

(* u.id === parseInt(id) *)
MemMatches(u, id) ==
    LET p == parseInt(id) IN ~p.nan /\ u.id = NumId(p.n)

MemFindById(us, id, t) ==
    LET hits == {i \in 1..Len(us) : MemMatches(us[i], id)}
    IN  IF hits = {} THEN Resolved(<<>>)
        ELSE LET first == CHOOSE i \in hits : \A j \in hits : i <= j
             IN  Resolved(<<Rehydrate(us[first], t)>>)

----------------------------------------------------------------------------
(* The MongoDB collection behind UserModel: documents keyed by a store-    *)
(* assigned ObjectId (here its ordinal), a unique index on email, schema   *)
(* defaults for role and createdAt.                                        *)

DuplicateKeyMsg == "E11000 duplicate key error"
StoreDownMsg == "connection lost"
CastErrorMsg == "Cast to ObjectId failed"

HexChars == {"0", "1", "2", "3", "4", "5", "6", "7", "8", "9",
             "a", "b", "c", "d", "e", "f"}

(* ObjectId.toString(): 24 hexadecimal characters *)
OidHex(n) == [i \in 1..24 |-> IF i = 24 THEN Digits[(n % 10) + 1] ELSE "f"]

IsObjectIdString(s) == Len(s) = 24 /\ \A i \in 1..24 : s[i] \in HexChars

(* mongoose's cast of the argument of findById: <<oid>> or <<>> (CastError) *)
CastObjectId(id) ==
    IF id.k = "str" /\ IsObjectIdString(id.s)
    THEN IF \E n \in 0..9 : OidHex(n) = id.s
         THEN <<CHOOSE n \in 0..9 : OidHex(n) = id.s>>
         ELSE <<0>>
    ELSE <<>>

SchemaDoc(oid, f, t) ==
    [_id |-> oid, name |-> f.name, email |-> f.email,
     role |-> IF f.role = Undefined THEN "user" ELSE f.role,
     createdAt |-> IF f.createdAt = <<>> THEN <<t>> ELSE f.createdAt]

(* mutation: the schema declares no unique index *)
UniqueIndexMissing(ds, email) == TRUE

(* email: { unique: true } *)
UniqueIndexAllows(ds, email) == \A i \in 1..Len(ds) : ds[i].email # email

(* userModel.save() *)
ModelSave(ds, oid, f, down, t) ==
    IF down THEN [docs |-> ds, nextOid |-> oid, st |-> "err", doc |-> <<>>, msg |-> StoreDownMsg]
    ELSE IF ~UniqueIndexAllows(ds, f.email)
    THEN [docs |-> ds, nextOid |-> oid, st |-> "err", doc |-> <<>>, msg |-> DuplicateKeyMsg]
    ELSE [docs |-> Append(ds, SchemaDoc(oid, f, t)), nextOid |-> oid + 1,
          st |-> "ok", doc |-> <<SchemaDoc(oid, f, t)>>, msg |-> ""]

(* UserModel.find() *)
ModelFind(ds, down) ==
    IF down THEN [st |-> "err", found |-> <<>>, msg |-> StoreDownMsg]
    ELSE [st |-> "ok", found |-> ds, msg |-> ""]

(* UserModel.findById(id) *)
ModelFindById(ds, id, down) ==
    LET c == CastObjectId(id)
    IN  IF c = <<>> THEN [st |-> "err", found |-> <<>>, msg |-> CastErrorMsg]
        ELSE IF down THEN [st |-> "err", found |-> <<>>, msg |-> StoreDownMsg]
        ELSE [st |-> "ok", found |-> SelectSeq(ds, LAMBDA d : d._id = c[1]), msg |-> ""]

----------------------------------------------------------------------------
(* MongoUserRepository *)

mapToEntity(d, t) == UserEntity(StrId(OidHex(d._id)), d.name, d.email, d.role, <<>>, t)

MongoCreateFields(e) ==
    [name |-> e.name, email |-> e.email, role |-> e.role, createdAt |-> <<>>]

(* create(userEntity): userEntity is only read *)
MongoCreate(ds, oid, e, down, t) ==
    LET r == ModelSave(ds, oid, MongoCreateFields(e), down, t)
    IN  [docs |-> r.docs, nextOid |-> r.nextOid, input |-> e,
         res |-> IF r.st = "ok" THEN Resolved(<<mapToEntity(r.doc[1], t)>>)
                 ELSE Rejected(r.msg)]

MongoFindAll(ds, down, t) ==
    LET r == ModelFind(ds, down)
    IN  IF r.st = "ok"
        THEN Resolved([i \in 1..Len(r.found) |-> mapToEntity(r.found[i], t)])
        ELSE Rejected(r.msg)

(* mutation: findById without its try/catch *)
MongoFindByIdRethrow(ds, id, down, t) ==
    LET r == ModelFindById(ds, id, down)
    IN  IF r.st = "ok"
        THEN IF r.found = <<>> THEN Resolved(<<>>)
             ELSE Resolved(<<mapToEntity(r.found[1], t)>>)
        ELSE Rejected(r.msg)

MongoFindById(ds, id, down, t) ==
    LET r == ModelFindById(ds, id, down)
    IN  IF r.st = "ok"
        THEN IF r.found = <<>> THEN Resolved(<<>>)
             ELSE Resolved(<<mapToEntity(r.found[1], t)>>)
        ELSE Resolved(<<>>)

----------------------------------------------------------------------------
(* Use cases.  execute() runs synchronously up to its port call (Begin),   *)
(* suspends at the await, and resumes with the settled promise (Finish).   *)

RequiredMsg == "Name and email are required"
NotFoundMsg == "User not found"
DestructureMsg == "Cannot destructure property 'name' of 'data' as it is undefined."

Returned(kind, v) == [st |-> "ok", kind |-> kind, val |-> v, msg |-> ""]
Thrown(m) == [st |-> "err", kind |-> "error", val |-> <<>>, msg |-> m]
NoOutcome == [st |-> "none", kind |-> "none", val |-> <<>>, msg |-> ""]

NoBody == [has |-> FALSE, name |-> Undefined, email |-> Undefined, role |-> Undefined]
Body(n, e, r) == [has |-> TRUE, name |-> n, email |-> e, role |-> r]

(* mutation: role ?? 'user' *)
RoleOrDefaultNullish(role) == IF role \in {Undefined, Null} THEN "user" ELSE role

(* role || 'user' *)
RoleOrDefault(role) == IF Falsy(role) THEN "user" ELSE role

(* mutation: the email is not validated *)
CreateUserThrowsNameOnly(data) ==
    IF ~data.has THEN <<DestructureMsg>>
    ELSE IF Falsy(data.name) THEN <<RequiredMsg>>
    ELSE <<>>

(* mutation: name and email are not validated before the port call *)
CreateUserThrowsNoCheck(data) ==
    IF ~data.has THEN <<DestructureMsg>> ELSE <<>>

(* CreateUserUseCase.execute before the await: the error it throws, if any *)
CreateUserThrows(data) ==
    IF ~data.has THEN <<DestructureMsg>>
    ELSE IF Falsy(data.name) \/ Falsy(data.email) THEN <<RequiredMsg>>
    ELSE <<>>

(* the transient entity handed to the port *)
CreateUserEntity(data, t) ==
    UserEntity(NullId, data.name, data.email, RoleOrDefault(data.role), <<>>, t)

CreateUserFinish(port) ==
    IF port.st = "err" THEN Thrown(port.msg)
    ELSE Returned("dto", <<toDTO(port.val[1])>>)

(* mutation: findAll hands out this.users itself, mapped after the await *)
GetAllUsersFinishLive(port) ==
    IF port.st = "err" THEN Thrown(port.msg)
    ELSE IF adapter = "memory"
    THEN Returned("list", [i \in 1..Len(users) |-> toDTO(users[i])])
    ELSE Returned("list", [i \in 1..Len(port.val) |-> toDTO(port.val[i])])

GetAllUsersFinish(port) ==
    IF port.st = "err" THEN Thrown(port.msg)
    ELSE Returned("list", [i \in 1..Len(port.val) |-> toDTO(port.val[i])])

GetUserByIdFinish(port) ==
    IF port.st = "err" THEN Thrown(port.msg)
    ELSE IF port.val = <<>> THEN Thrown(NotFoundMsg)
    ELSE Returned("dto", <<toDTO(port.val[1])>>)

----------------------------------------------------------------------------
(* Controllers and the response envelope *)

NullData == [k |-> "null"]
DtoData(d) == [k |-> "dto", v |-> d]
ListData(l) == [k |-> "list", v |-> l]

(* mutation: data has no default, and JSON drops an undefined field *)
sendResponseNoDefault(statusCode, success, message, data) ==
    IF data = [k |-> "null"]
    THEN [status |-> statusCode, success |-> success, message |-> message]
    ELSE [status |-> statusCode, success |-> success, message |-> message, data |-> data]

(* sendResponse(res, statusCode, success, message, data = null) *)
sendResponse(statusCode, success, message, data) ==
    [status |-> statusCode, success |-> success, message |-> message, data |-> data]

(* Each handler gives the envelopes it writes to res, in order: one per    *)
(* sendResponse call its path executes.                                   *)

(* mutation: created answers 200 *)
CreateUserHandleOk200(out) ==
    IF out.st = "ok"
    THEN <<sendResponse(200, TRUE, "User created successfully", DtoData(out.val[1]))>>
    ELSE <<sendResponse(400, FALSE, out.msg, NullData)>>

(* mutation: the catch answers 500 *)
CreateUserHandleCatch500(out) ==
    IF out.st = "ok"
    THEN <<sendResponse(201, TRUE, "User created successfully", DtoData(out.val[1]))>>
    ELSE <<sendResponse(500, FALSE, out.msg, NullData)>>

(* CreateUserController.handle, after the await of execute *)
CreateUserHandle(out) ==
    IF out.st = "ok"
    THEN <<sendResponse(201, TRUE, "User created successfully", DtoData(out.val[1]))>>
    ELSE <<sendResponse(400, FALSE, out.msg, NullData)>>

(* GetUsersController.getAll *)
GetAllHandle(out) ==
    IF out.st = "ok"
    THEN <<sendResponse(200, TRUE, "Users retrieved successfully", ListData(out.val))>>
    ELSE <<sendResponse(500, FALSE, out.msg, NullData)>>

(* mutation: the 404 branch of the catch does not return *)
GetByIdHandleNoReturn(out) ==
    IF out.st = "ok"
    THEN <<sendResponse(200, TRUE, "User retrieved successfully", DtoData(out.val[1]))>>
    ELSE (IF out.msg = NotFoundMsg
          THEN <<sendResponse(404, FALSE, out.msg, NullData)>>
          ELSE <<>>)
         \o <<sendResponse(500, FALSE, out.msg, NullData)>>

(* GetUsersController.getById: the 404 branch returns before the 500 *)
GetByIdHandle(out) ==
    IF out.st = "ok"
    THEN <<sendResponse(200, TRUE, "User retrieved successfully", DtoData(out.val[1]))>>
    ELSE IF out.msg = NotFoundMsg
    THEN <<sendResponse(404, FALSE, out.msg, NullData)>>
    ELSE <<sendResponse(500, FALSE, out.msg, NullData)>>

----------------------------------------------------------------------------
(* The app: middleware, the users router mounted at /api/v1/users, the    *)
(* root endpoint and the 404 handler.  A request line is its method and   *)
(* its path, the path split into the mount point it starts with ("" when  *)
(* it starts with none) and the segments that follow.                     *)

UsersMount == "/api/v1/users"

Line(method, mount, rest) == [method |-> method, mount |-> mount, rest |-> rest]

NoLine == Line("", "", <<>>)

(* createUserRoutes: the handler a request reaches inside the router, or  *)
(* "next" when no route of the router matches                             *)
createUserRoutes(method, rest) ==
    IF method = "POST" /\ rest = <<>> THEN "create"
    ELSE IF method = "GET" /\ rest = <<>> THEN "getAll"
    ELSE IF method = "GET" /\ Len(rest) = 1 THEN "getById"
    ELSE "next"

(* app.use(cors()): a preflight request is ended by the middleware *)
cors(method) == IF method = "OPTIONS" THEN "preflight" ELSE "next"

(* createApp: what answers a request, in the order the app registers it *)
createApp(line) ==
    IF cors(line.method) # "next" THEN cors(line.method)
    ELSE IF line.mount = UsersMount /\ createUserRoutes(line.method, line.rest) # "next"
    THEN createUserRoutes(line.method, line.rest)
    ELSE IF line.method = "GET" /\ line.mount = "" /\ line.rest = <<>> THEN "root"
    ELSE "notFound"

WelcomeMsg == "Welcome to the Clean Architecture API"
RouteNotFoundMsg == "Route not found"

(* what the app itself writes: the root endpoint, the 404 handler, and    *)
(* the preflight answer of cors, which has a status and no body           *)
AppHandle(to) ==
    CASE to = "root" -> <<sendResponse(200, TRUE, WelcomeMsg, NullData)>>
      [] to = "notFound" -> <<sendResponse(404, FALSE, RouteNotFoundMsg, NullData)>>
      [] OTHER -> <<[status |-> 204]>>

----------------------------------------------------------------------------
(* Inputs *)

(* request bodies: no body at all, bodies that lack a non-empty name or  *)
(* email, and complete ones with the role omitted, empty or given        *)
InvalidBodies ==
    {NoBody,
     Body(Undefined, Undefined, Undefined),
     Body("n", Undefined, Undefined),
     Body(Undefined, "e1", Undefined),
     Body("", "e1", "admin"),
     Body("n", "", Undefined)}

Emails == {"e1", "e2"}
Roles == {Undefined, "", "admin"}

ValidBodies == {Body("n", e, r) : e \in Emails, r \in Roles}

Bodies == InvalidBodies \cup ValidBodies

IdChars == {"1", "a"}

RECURSIVE StringsUpTo(_)
StringsUpTo(len) ==
    IF len = 0 THEN {<<>>}
    ELSE LET shorter == StringsUpTo(len - 1)
         IN  shorter \cup {Append(s, c) : s \in shorter, c \in IdChars}

(* an id as returned by create, and as its text arrives in the URL path *)
IdForms(id) == {id, StrId(IdToString(id))}

(* what getById may be asked for: an id as a number (a direct call of the *)
(* use case), any short string (the URL path) or an ObjectId string       *)
RequestIds ==
    {NumId(n) : n \in 1..(MaxUsers + 1)}
    \cup {StrId(s) : s \in StringsUpTo(MaxIdLen)}
    \cup {StrId(OidHex(n)) : n \in 1..(MaxUsers + 1)}

(* Slot 1 is the client under observation and sends anything; the other  *)
(* slots are concurrent clients, which send well-formed requests only.   *)
BodiesOf(r) == IF r = 1 THEN Bodies ELSE ValidBodies

IdsOf(r) == IF r = 1 THEN RequestIds ELSE {StrId(<<"1">>), StrId(OidHex(1))}

(* the request lines of the three routes, with the ids a slot asks for   *)
(* as the text of the last segment                                       *)
RouteLines(ids) ==
    {Line("POST", UsersMount, <<>>), Line("GET", UsersMount, <<>>)}
    \cup {Line("GET", UsersMount, <<id.s>>) : id \in {i \in ids : i.k = "str"}}

(* request lines of no route: other methods, longer and other paths *)
OtherLines ==
    {Line("GET", "", <<>>),
     Line("POST", "", <<>>),
     Line("GET", "/other", <<>>),
     Line("PUT", UsersMount, <<>>),
     Line("POST", UsersMount, <<<<"1">>>>),
     Line("GET", UsersMount, <<<<"1">>, <<"1">>>>),
     Line("OPTIONS", UsersMount, <<>>),
     Line("OPTIONS", "/other", <<>>)}

ObservedLines == RouteLines(IdsOf(1)) \cup OtherLines

ConcurrentLines == RouteLines(IdsOf(2))

LinesOf(r) == IF r = 1 THEN ObservedLines ELSE ConcurrentLines

(* the requests among lines that the app hands to one handler *)
Routed(lines, to) == {line \in lines : createApp(line) = to}

Slot == 1..NReq

(* pc: idle | await | done.  line: the request line.  op: what the app    *)
(* dispatched it to.  port: the promise of the port call.  calls:  *)
(* port calls made.  out: what execute() returned or threw.  sent: the    *)
(* envelopes written to res.  History: seen, the creations committed when *)
(* the port call was served; idx, the position of this request's own      *)
(* creation; after, the slots whose request had completed on arrival;     *)
(* storeErr, what the store threw at this request's query, if anything;   *)
(* expect, the envelopes of this request in the one-at-a-time run;        *)
(* given, the entity as it was when create was called.  entity is the     *)
(* transient entity object as the port call left it.                      *)
IdleSlot ==
    [pc |-> "idle", op |-> "none", line |-> NoLine, body |-> NoBody, id |-> NullId,
     entity |-> <<>>, given |-> <<>>, port |-> NotCalled, calls |-> 0, out |-> NoOutcome,
     sent |-> <<>>, expect |-> <<>>, seen |-> 0, idx |-> 0, after |-> {}, storeErr |-> <<>>]

NoSerial == [users |-> <<>>, currentId |-> 1]

NoTwin == [op |-> "none", body |-> NoBody, id |-> NullId,
           mem |-> NoOutcome, mongo |-> NoOutcome]

(* CreateUserUseCase.execute(data) on the in-memory adapter *)
MemExecuteCreate(us, cid, data, t) ==
    LET thr == CreateUserThrows(data)
        c == MemCreate(us, cid, CreateUserEntity(data, t), t)
    IN  IF thr # <<>>
        THEN [users |-> us, currentId |-> cid, out |-> Thrown(thr[1])]
        ELSE [users |-> c.users, currentId |-> c.currentId, out |-> CreateUserFinish(c.res)]

(* The one-at-a-time run: each request of the in-memory adapter executed *)
(* whole, on the store serial, when its port call is made.               *)
SerialCreate(data) == MemExecuteCreate(serial.users, serial.currentId, data, now)

SerialStore(m) == [users |-> m.users, currentId |-> m.currentId]

Init ==
    /\ adapter \in {"memory", "mongo"}
    /\ users = <<>>
    /\ currentId = 1
    /\ docs = <<>>
    /\ nextOid = 1
    /\ slots = [r \in Slot |-> IdleSlot]
    /\ created = <<>>
    /\ now = 0
    /\ twin = NoTwin
    /\ serial = NoSerial

Free(r) == slots[r].pc \in {"idle", "done"}

PendingCreates == Cardinality({r \in Slot : slots[r].op = "create" /\ slots[r].port.st = "pending"})

HasRoom ==
    IF adapter = "memory" THEN Len(users) < MaxUsers
    ELSE Len(docs) + PendingCreates < MaxUsers

(* slot r takes a new request: sl is its record *)
Admit(r, sl) ==
    [q \in Slot |->
        IF q = r
        THEN [sl EXCEPT !.pc = "await", !.seen = Len(created),
                        !.after = {p \in Slot \ {r} : slots[p].pc = "done"}]
        ELSE [slots[q] EXCEPT !.after = @ \ {r}]]

(* POST /api/v1/users: handle -> execute up to the await of create *)
ReceiveCreate(r, line, data) ==
    /\ Free(r)
    /\ createApp(line) = "create"
    /\ LET thr == CreateUserThrows(data)
           e == CreateUserEntity(data, now)
           c == MemCreate(users, currentId, e, now)
           m == SerialCreate(data)
           base == [IdleSlot EXCEPT !.op = "create", !.line = line, !.body = data,
                                    !.expect = IF adapter = "memory"
                                               THEN CreateUserHandle(m.out) ELSE <<>>]
       IN  IF thr # <<>>
           THEN /\ slots' = Admit(r, [base EXCEPT !.out = Thrown(thr[1])])
                /\ UNCHANGED <<users, currentId, created, serial>>
           ELSE /\ HasRoom
                /\ IF adapter = "memory"
                   THEN /\ users' = c.users
                        /\ currentId' = c.currentId
                        /\ created' = Append(created, CreateUserFinish(c.res).val[1])
                        /\ serial' = SerialStore(m)
                        /\ slots' = Admit(r, [base EXCEPT !.entity = <<c.input>>,
                                                          !.given = <<e>>,
                                                          !.port = c.res, !.calls = 1,
                                                          !.idx = Len(created) + 1])
                   ELSE /\ slots' = Admit(r, [base EXCEPT !.entity = <<e>>,
                                                          !.given = <<e>>,
                                                          !.port = Pending, !.calls = 1])
                        /\ UNCHANGED <<users, currentId, created, serial>>
    /\ UNCHANGED <<adapter, docs, nextOid, now, twin>>

(* GET /api/v1/users: getAll -> execute up to the await of findAll *)
ReceiveGetAll(r, line) ==
    /\ Free(r)
    /\ createApp(line) = "getAll"
    /\ slots' = Admit(r,
          [IdleSlot EXCEPT !.op = "getAll", !.line = line, !.calls = 1,
                           !.expect = IF adapter = "memory"
                                      THEN GetAllHandle(GetAllUsersFinish(
                                               MemFindAll(serial.users, now)))
                                      ELSE <<>>,
                           !.port = IF adapter = "memory" THEN MemFindAll(users, now)
                                    ELSE Pending])
    /\ users' = IF adapter = "memory" THEN MemReadLeaves(users, currentId).users ELSE users
    /\ currentId' = IF adapter = "memory" THEN MemReadLeaves(users, currentId).currentId
                    ELSE currentId
    /\ UNCHANGED <<adapter, docs, nextOid, created, now, twin, serial>>

(* GET /api/v1/users/:id: getById -> execute up to the await of findById *)
(* req.params.id is the segment after the mount point                    *)
ReceiveGetById(r, line) ==
    /\ Free(r)
    /\ createApp(line) = "getById"
    /\ LET id == StrId(line.rest[1])
       IN  slots' = Admit(r,
              [IdleSlot EXCEPT !.op = "getById", !.line = line, !.id = id, !.calls = 1,
                               !.expect = IF adapter = "memory"
                                          THEN GetByIdHandle(GetUserByIdFinish(
                                                   MemFindById(serial.users, id, now)))
                                          ELSE <<>>,
                               !.port = IF adapter = "memory"
                                        THEN MemFindById(users, id, now)
                                        ELSE Pending])
    /\ users' = IF adapter = "memory" THEN MemReadLeaves(users, currentId).users ELSE users
    /\ currentId' = IF adapter = "memory" THEN MemReadLeaves(users, currentId).currentId
                    ELSE currentId
    /\ UNCHANGED <<adapter, docs, nextOid, created, now, twin, serial>>

(* a request no route of the router takes: cors, the root endpoint or    *)
(* the 404 handler answers it at once                                    *)
AppAnswer(r, line) ==
    /\ Free(r)
    /\ createApp(line) \in {"preflight", "root", "notFound"}
    /\ slots' = [Admit(r, [IdleSlot EXCEPT !.op = createApp(line), !.line = line,
                                           !.sent = AppHandle(createApp(line))])
                    EXCEPT ![r].pc = "done"]
    /\ UNCHANGED <<adapter, users, currentId, docs, nextOid, created, now, twin, serial>>

(* the store serves one pending query of the Mongo adapter; down: the    *)
(* store fails this operation (a lost connection)                        *)
StoreThrows(ds, sl, down) ==
    LET r == CASE sl.op = "create" ->
                    ModelSave(ds, 0, MongoCreateFields(sl.entity[1]), down, 0)
               [] sl.op = "getAll" -> ModelFind(ds, down)
               [] OTHER -> ModelFindById(ds, sl.id, down)
    IN  IF r.st = "err" THEN <<r.msg>> ELSE <<>>

StoreExec(r, down) ==
    /\ adapter = "mongo"
    /\ slots[r].pc = "await"
    /\ slots[r].port.st = "pending"
    /\ LET sl == [slots[r] EXCEPT !.storeErr = StoreThrows(docs, slots[r], down)]
           c == MongoCreate(docs, nextOid, sl.entity[1], down, now)
       IN  CASE sl.op = "create" ->
                  /\ docs' = c.docs
                  /\ nextOid' = c.nextOid
                  /\ created' = IF c.res.st = "ok"
                                THEN Append(created, CreateUserFinish(c.res).val[1])
                                ELSE created
                  /\ slots' = [slots EXCEPT ![r] =
                        [sl EXCEPT !.port = c.res, !.entity = <<c.input>>,
                                   !.seen = Len(created),
                                   !.idx = IF c.res.st = "ok" THEN Len(created) + 1 ELSE 0]]
             [] sl.op = "getAll" ->
                  /\ slots' = [slots EXCEPT ![r] =
                        [sl EXCEPT !.port = MongoFindAll(docs, down, now),
                                   !.seen = Len(created)]]
                  /\ UNCHANGED <<docs, nextOid, created>>
             [] OTHER ->
                  /\ slots' = [slots EXCEPT ![r] =
                        [sl EXCEPT !.port = MongoFindById(docs, sl.id, down, now),
                                   !.seen = Len(created)]]
                  /\ UNCHANGED <<docs, nextOid, created>>
    /\ UNCHANGED <<adapter, users, currentId, now, twin, serial>>

UseCaseFinish(sl) ==
    CASE sl.port.st = "none" -> sl.out
      [] sl.op = "create" -> CreateUserFinish(sl.port)
      [] sl.op = "getAll" -> GetAllUsersFinish(sl.port)
      [] OTHER -> GetUserByIdFinish(sl.port)

ControllerSend(op, out) ==
    CASE op = "create" -> CreateUserHandle(out)
      [] op = "getAll" -> GetAllHandle(out)
      [] OTHER -> GetByIdHandle(out)

(* the awaited execute() settles: the use case finishes and the          *)
(* controller sends the response                                         *)
Respond(r) ==
    /\ slots[r].pc = "await"
    /\ slots[r].port.st # "pending"
    /\ LET sl == slots[r]
           out == UseCaseFinish(sl)
       IN  slots' = [slots EXCEPT ![r] =
              [sl EXCEPT !.pc = "done", !.out = out,
                         !.sent = sl.sent \o ControllerSend(sl.op, out)]]
    /\ UNCHANGED <<adapter, users, currentId, docs, nextOid, created, now, twin, serial>>

Next ==
    \E r \in Slot :
        \/ \E line \in Routed(LinesOf(r), "create"), data \in BodiesOf(r) : ReceiveCreate(r, line, data)
        \/ \E line \in Routed(LinesOf(r), "getAll") : ReceiveGetAll(r, line)
        \/ \E line \in Routed(LinesOf(r), "getById") : ReceiveGetById(r, line)
        \/ \E line \in LinesOf(r) : AppAnswer(r, line)
        \/ \E down \in BOOLEAN : StoreExec(r, down)
        \/ Respond(r)

Spec == Init /\ [][Next]_vars

(* Progress.  The event loop resumes every settled await, and the store   *)
(* answers every query it was sent, with a result or with an error.  The  *)
(* requests are the same operations on fewer distinct inputs: no body or  *)
(* a complete one, a malformed id or a well-formed one.                   *)
LiveBodies == {NoBody, Body("n", "e1", Undefined)}

LiveLines ==
    {Line("POST", UsersMount, <<>>), Line("GET", UsersMount, <<>>),
     Line("GET", UsersMount, <<<<"1">>>>), Line("GET", UsersMount, <<OidHex(1)>>),
     Line("GET", "", <<>>), Line("PUT", UsersMount, <<>>)}

NextLive ==
    \E r \in Slot :
        \/ \E line \in Routed(LiveLines, "create"), data \in LiveBodies : ReceiveCreate(r, line, data)
        \/ \E line \in Routed(LiveLines, "getAll") : ReceiveGetAll(r, line)
        \/ \E line \in Routed(LiveLines, "getById") : ReceiveGetById(r, line)
        \/ \E line \in LiveLines : AppAnswer(r, line)
        \/ \E down \in BOOLEAN : StoreExec(r, down)
        \/ Respond(r)

Fairness ==
    \A r \in Slot :
        /\ WF_vars(Respond(r))
        /\ WF_vars(\E down \in BOOLEAN : StoreExec(r, down))

SpecLive == Init /\ [][NextLive]_vars /\ Fairness

----------------------------------------------------------------------------
(* Side-by-side run: the same use cases wired once to the in-memory       *)
(* adapter (users, currentId) and once to the Mongo adapter (docs,        *)
(* nextOid, a store that never fails), each request executed to           *)
(* completion on both.  The k-th id one run assigned stands for the k-th  *)
(* id the other assigned.                                                 *)

(* CreateUserUseCase.execute(data) on the Mongo adapter *)
MongoExecuteCreate(ds, oid, data, t) ==
    LET thr == CreateUserThrows(data)
        c == MongoCreate(ds, oid, CreateUserEntity(data, t), FALSE, t)
    IN  IF thr # <<>>
        THEN [docs |-> ds, nextOid |-> oid, out |-> Thrown(thr[1])]
        ELSE [docs |-> c.docs, nextOid |-> c.nextOid, out |-> CreateUserFinish(c.res)]

MemAssigned == [k \in 1..Len(users) |-> users[k].id]
MongoAssigned == [k \in 1..Len(docs) |-> StrId(OidHex(docs[k]._id))]

AssignedBoth == IF Len(users) < Len(docs) THEN Len(users) ELSE Len(docs)

(* ids that neither run has assigned, in either form *)
UnassignedIds ==
    {id \in RequestIds :
        /\ \A k \in 1..Len(users) : id \notin IdForms(MemAssigned[k])
        /\ \A k \in 1..Len(docs) : id \notin IdForms(MongoAssigned[k])}

InitTwin ==
    /\ adapter = "both"
    /\ users = <<>>
    /\ currentId = 1
    /\ docs = <<>>
    /\ nextOid = 1
    /\ slots = [r \in Slot |-> IdleSlot]
    /\ created = <<>>
    /\ now = 0
    /\ twin = NoTwin
    /\ serial = NoSerial

TwinCreate(data) ==
    /\ Len(users) < MaxUsers
    /\ LET m == MemExecuteCreate(users, currentId, data, now)
           g == MongoExecuteCreate(docs, nextOid, data, now)
       IN  /\ users' = m.users
           /\ currentId' = m.currentId
           /\ docs' = g.docs
           /\ nextOid' = g.nextOid
           /\ twin' = [NoTwin EXCEPT !.op = "create", !.body = data,
                                     !.mem = m.out, !.mongo = g.out]
    /\ UNCHANGED <<adapter, slots, created, now, serial>>

TwinGetAll ==
    /\ twin' = [NoTwin EXCEPT
                   !.op = "getAll",
                   !.mem = GetAllUsersFinish(MemFindAll(users, now)),
                   !.mongo = GetAllUsersFinish(MongoFindAll(docs, FALSE, now))]
    /\ UNCHANGED <<adapter, users, currentId, docs, nextOid, slots, created, now, serial>>

(* getById of the k-th assigned id, as returned or as text *)
TwinGetAssigned(k, asText) ==
    /\ k \in 1..AssignedBoth
    /\ LET a == IF asText THEN StrId(IdToString(MemAssigned[k])) ELSE MemAssigned[k]
           b == IF asText THEN StrId(IdToString(MongoAssigned[k])) ELSE MongoAssigned[k]
       IN  twin' = [NoTwin EXCEPT
                      !.op = "getById", !.id = a,
                      !.mem = GetUserByIdFinish(MemFindById(users, a, now)),
                      !.mongo = GetUserByIdFinish(MongoFindById(docs, b, FALSE, now))]
    /\ UNCHANGED <<adapter, users, currentId, docs, nextOid, slots, created, now, serial>>

(* getById of an id neither run has assigned *)
TwinGetUnassigned(id) ==
    /\ id \in UnassignedIds
    /\ twin' = [NoTwin EXCEPT
                   !.op = "getById", !.id = id,
                   !.mem = GetUserByIdFinish(MemFindById(users, id, now)),
                   !.mongo = GetUserByIdFinish(MongoFindById(docs, id, FALSE, now))]
    /\ UNCHANGED <<adapter, users, currentId, docs, nextOid, slots, created, now, serial>>

NextTwin ==
    \/ \E data \in Bodies : TwinCreate(data)
    \/ TwinGetAll
    \/ \E k \in 1..MaxUsers, asText \in BOOLEAN : TwinGetAssigned(k, asText)
    \/ \E id \in RequestIds : TwinGetUnassigned(id)

SpecTwin == InitTwin /\ [][NextTwin]_vars

----------------------------------------------------------------------------
(* The mapper and the entity on their own: UserMapper.toDTO, and the     *)
(* three use cases' results, applied to an entity and to the same entity  *)
(* with another createdAt; UserMapper.toEntity applied to generic         *)
(* records; UserEntity.isAdmin applied to entities of every role.         *)

MaxTime == 2        \* creation times range over 0..MaxTime

Entities ==
    {[id |-> id, name |-> n, email |-> e, role |-> r, createdAt |-> <<t>>] :
        id \in {NullId, NumId(1), StrId(OidHex(1))},
        n \in {"n", ""}, e \in Emails, r \in {"user", "admin", ""},
        t \in 0..(MaxTime - 1)}

InitMapper ==
    /\ adapter = "none"
    /\ users = <<>>
    /\ currentId = 1
    /\ docs = <<>>
    /\ nextOid = 1
    /\ slots = [r \in Slot |-> IdleSlot]
    /\ created = <<>>
    /\ now = 0
    /\ twin = NoTwin
    /\ serial = NoSerial

MapEntity(a, t) ==
    /\ LET b == [a EXCEPT !.createdAt = <<t>>]
       IN  twin' = [op |-> "map", a |-> a, b |-> b,
                    dtoA |-> toDTO(a), dtoB |-> toDTO(b),
                    createA |-> CreateUserFinish(Resolved(<<a>>)),
                    createB |-> CreateUserFinish(Resolved(<<b>>)),
                    allA |-> GetAllUsersFinish(Resolved(<<a, b>>)),
                    allB |-> GetAllUsersFinish(Resolved(<<b, a>>)),
                    oneA |-> GetUserByIdFinish(Resolved(<<a>>)),
                    oneB |-> GetUserByIdFinish(Resolved(<<b>>))]
    /\ UNCHANGED <<adapter, users, currentId, docs, nextOid, slots, created, now, serial>>

(* generic records: id, role and createdAt present or absent (an absent  *)
(* id is UndefinedId, an absent role Undefined, an absent createdAt <<>>) *)
Records ==
    {[id |-> id, name |-> "n", email |-> e, role |-> r, createdAt |-> c] :
        id \in {UndefinedId, NullId, NumId(1), StrId(OidHex(1))},
        e \in Emails, r \in {Undefined, "user", "admin"},
        c \in {<<>>} \cup {<<t>> : t \in 0..(MaxTime - 1)}}

(* UserMapper.toEntity(rec) called at time t *)
MapRecord(rec, t) ==
    /\ twin' = [op |-> "toEntity", rec |-> rec, at |-> t, entity |-> toEntity(rec, t)]
    /\ UNCHANGED <<adapter, users, currentId, docs, nextOid, slots, created, now, serial>>

(* roles as they may be spelled *)
RoleForms == {Undefined, "", "user", "admin", "Admin", "ADMIN", " admin", "admin "}

(* entity.isAdmin(): result, and after, the entity as the call leaves it *)
AskIsAdmin(e) ==
    /\ twin' = [op |-> "isAdmin", a |-> e, result |-> isAdmin(e), after |-> e]
    /\ UNCHANGED <<adapter, users, currentId, docs, nextOid, slots, created, now, serial>>

NextMapper ==
    \/ \E a \in Entities, t \in 0..MaxTime : MapEntity(a, t)
    \/ \E rec \in Records, t \in 0..MaxTime : MapRecord(rec, t)
    \/ \E a \in Entities, r \in RoleForms : AskIsAdmin([a EXCEPT !.role = r])

SpecMapper == InitMapper /\ [][NextMapper]_vars

----------------------------------------------------------------------------
(* The port on its own under a running clock: create, findAll and         *)
(* findById called one at a time on one adapter whose store never fails.  *)
(* created keeps the entities create returned, twin the last call.        *)

NoCall == [op |-> "none", res |-> NotCalled]

InitClock ==
    /\ adapter \in {"memory", "mongo"}
    /\ users = <<>>
    /\ currentId = 1
    /\ docs = <<>>
    /\ nextOid = 1
    /\ slots = [r \in Slot |-> IdleSlot]
    /\ created = <<>>
    /\ now = 0
    /\ twin = NoCall
    /\ serial = NoSerial

(* new Date() gives a later instant *)
ClockTick ==
    /\ now < MaxTime
    /\ now' = now + 1
    /\ UNCHANGED <<adapter, users, currentId, docs, nextOid, slots, created, twin, serial>>

(* userRepository.create(new UserEntity(null, name, email, role)) *)
PortCreate(data) ==
    /\ Len(created) < MaxUsers
    /\ LET e == CreateUserEntity(data, now)
           m == MemCreate(users, currentId, e, now)
           g == MongoCreate(docs, nextOid, e, FALSE, now)
           res == IF adapter = "memory" THEN m.res ELSE g.res
       IN  /\ users' = IF adapter = "memory" THEN m.users ELSE users
           /\ currentId' = IF adapter = "memory" THEN m.currentId ELSE currentId
           /\ docs' = IF adapter = "mongo" THEN g.docs ELSE docs
           /\ nextOid' = IF adapter = "mongo" THEN g.nextOid ELSE nextOid
           /\ created' = IF res.st = "ok" THEN Append(created, res.val[1]) ELSE created
           /\ twin' = [op |-> "create", res |-> res]
    /\ UNCHANGED <<adapter, slots, now, serial>>

(* userRepository.findAll() *)
PortFindAll ==
    /\ twin' = [op |-> "findAll",
                res |-> IF adapter = "memory" THEN MemFindAll(users, now)
                        ELSE MongoFindAll(docs, FALSE, now)]
    /\ UNCHANGED <<adapter, users, currentId, docs, nextOid, slots, created, now, serial>>

(* userRepository.findById(id) with the id the k-th create returned *)
PortFindById(k) ==
    /\ k \in 1..Len(created)
    /\ twin' = [op |-> "findById",
                res |-> IF adapter = "memory" THEN MemFindById(users, created[k].id, now)
                        ELSE MongoFindById(docs, created[k].id, FALSE, now)]
    /\ UNCHANGED <<adapter, users, currentId, docs, nextOid, slots, created, now, serial>>

NextClock ==
    \/ ClockTick
    \/ \E data \in ValidBodies : PortCreate(data)
    \/ PortFindAll
    \/ \E k \in 1..MaxUsers : PortFindById(k)

SpecClock == InitClock /\ [][NextClock]_vars

----------------------------------------------------------------------------
(* Vocabulary of the properties *)

Done(r) == slots[r].pc = "done"

ControllerOps == {"create", "getAll", "getById"}

(* the one envelope a completed request has written *)
Envelope(r) == slots[r].sent[1]

LacksRequired(data) == ~data.has \/ Falsy(data.name) \/ Falsy(data.email)

StoreIsEmpty == users = <<>> /\ docs = <<>>

(* C1: with the in-memory adapter, once CreateUser.execute(data) has      *)
(* returned DTO d, a later GetUserById.execute(d.id), the id given as     *)
(* returned or as its string form, returns the DTO with id = d.id,        *)
(* name = data.name, email = data.email and role = data.role, or "user"   *)
(* when data.role was omitted.                                            *)
C1_CreateThenGetRoundTrip ==
    \A c \in Slot, g \in Slot :
        ( /\ adapter = "memory"
          /\ slots[c].op = "create" /\ Done(c) /\ slots[c].out.st = "ok"
          /\ slots[g].op = "getById" /\ Done(g) /\ c \in slots[g].after
          /\ slots[g].id \in IdForms(slots[c].out.val[1].id) )
        => slots[g].out =
              Returned("dto", <<UserDTO(slots[c].out.val[1].id,
                                        slots[c].body.name,
                                        slots[c].body.email,
                                        IF slots[c].body.role = Undefined THEN "user"
                                        ELSE slots[c].body.role)>>)

(* C2: CreateUser.execute(data) with data.name or data.email absent or    *)
(* empty throws 'Name and email are required' without calling the port,   *)
(* and no step of that request, its arrival or its completion, changes    *)
(* the store (records and next id), whatever the store holds.             *)
C2_InvalidCreateLeavesStore ==
    [][ \A r \in Slot :
          ( /\ slots'[r].pc # slots[r].pc
            /\ slots'[r].op = "create"
            /\ slots'[r].body.has
            /\ LacksRequired(slots'[r].body) )
          => /\ UNCHANGED <<users, currentId, docs, nextOid>>
             /\ slots'[r].out = Thrown(RequiredMsg)
             /\ slots'[r].calls = 0
             /\ slots'[r].port = NotCalled
      ]_vars

C2_Witness ==
    \E r \in Slot :
        /\ slots[r].op = "create" /\ Done(r)
        /\ slots[r].body = Body("n", Undefined, Undefined)
        /\ slots[r].out = Thrown(RequiredMsg)
        /\ ~StoreIsEmpty

(* the ids the creations so far have returned, in both forms *)
ReturnedIds == UNION {IdForms(created[k].id) : k \in 1..Len(created)}

(* C3: for every adapter and every id that no create has returned,        *)
(* GetUserById.execute(id) throws 'User not found'; it never returns the  *)
(* DTO of a stored user.                                                  *)
C3_UnknownIdIsNotFound ==
    \A g \in Slot :
        (slots[g].op = "getById" /\ Done(g) /\ slots[g].id \notin ReturnedIds)
        => slots[g].out = Thrown(NotFoundMsg)

(* a one-to-one correspondence between the DTOs of l and those of m *)
OneToOne(l, m) ==
    /\ Len(l) = Len(m)
    /\ \E f \in [1..Len(l) -> 1..Len(m)] :
          /\ \A i, j \in 1..Len(l) : f[i] = f[j] => i = j
          /\ \A i \in 1..Len(l) : l[i] = m[f[i]]

(* C4: GetAllUsers.execute() on an empty store returns the empty          *)
(* sequence; served after exactly N successful creations it returns       *)
(* exactly N DTOs, in one-to-one correspondence with the DTOs those       *)
(* creations returned.                                                    *)
C4_GetAllMatchesCreations ==
    \A g \in Slot :
        (slots[g].op = "getAll" /\ Done(g) /\ slots[g].storeErr = <<>>)
        => /\ slots[g].out.st = "ok"
           /\ slots[g].out.kind = "list"
           /\ Len(slots[g].out.val) = slots[g].seen
           /\ OneToOne(slots[g].out.val, SubSeq(created, 1, slots[g].seen))

C4_Witness ==
    \E g \in Slot, c \in Slot :
        /\ slots[g].op = "getAll" /\ Done(g) /\ Len(slots[g].out.val) = MaxUsers
        /\ slots[c].op = "create" /\ Done(c) /\ slots[c].out.st = "err"
        /\ c \in slots[g].after

(* the kind of outcome the caller of a use case can tell apart *)
OutcomeKind(out) ==
    CASE out.st = "ok" -> out.kind
      [] out.msg \in {RequiredMsg, DestructureMsg} -> "validation error"
      [] out.msg = NotFoundMsg -> "not-found error"
      [] OTHER -> "propagated failure"

Ordinal(assigned, id) ==
    IF \E k \in 1..Len(assigned) : assigned[k] = id
    THEN CHOOSE k \in 1..Len(assigned) : assigned[k] = id
    ELSE 0

(* the DTOs of an outcome with each id replaced by its rank among the ids *)
(* that run assigned                                                      *)
Observable(out, assigned) ==
    [i \in 1..Len(out.val) |->
        [nth |-> Ordinal(assigned, out.val[i].id), name |-> out.val[i].name,
         email |-> out.val[i].email, role |-> out.val[i].role]]

(* C5: the same sequence of CreateUser, GetAllUsers and GetUserById       *)
(* executions gives, on the in-memory and on the Mongo adapter, outcomes  *)
(* of the same kind with the same names, emails and roles, the k-th id of *)
(* one run standing for the k-th id of the other.                         *)
C5_AdaptersSubstitutable ==
    /\ OutcomeKind(twin.mem) = OutcomeKind(twin.mongo)
    /\ Observable(twin.mem, MemAssigned) = Observable(twin.mongo, MongoAssigned)

(* C6: when the port call of a create, getAll or getById request fails    *)
(* (an error that is neither the validation nor the not-found error),     *)
(* the response has status 500 and success = false.                       *)
C6_PortFailureIs500 ==
    \A r \in Slot :
        (Done(r) /\ slots[r].port.st = "err")
        => Envelope(r).status = 500 /\ ~Envelope(r).success

(* C7: with the Mongo adapter a store failure that is not a malformed id  *)
(* reaches the controller unchanged, for create, findAll and findById.    *)
C7_StoreFailurePropagates ==
    \A r \in Slot :
        ( /\ Done(r) /\ slots[r].storeErr # <<>>
          /\ slots[r].storeErr # <<CastErrorMsg>> )
        => /\ slots[r].out = Thrown(slots[r].storeErr[1])
           /\ Envelope(r).message = slots[r].storeErr[1]

(* C8: on success create answers 201, getAll and getById answer 200, each *)
(* with success = true and the use case's result as data (an empty array, *)
(* not null, for an empty store); no other response has success = true.   *)
C8_SuccessEnvelopes ==
    \A r \in Slot :
        (Done(r) /\ slots[r].op \in ControllerOps) =>
            /\ Len(slots[r].sent) = 1
            /\ slots[r].out.st = "ok" =>
                  /\ Envelope(r).success
                  /\ Envelope(r).status = IF slots[r].op = "create" THEN 201 ELSE 200
                  /\ Envelope(r).data =
                        IF slots[r].op = "getAll" THEN ListData(slots[r].out.val)
                        ELSE DtoData(slots[r].out.val[1])
            /\ Envelope(r).success =>
                  /\ slots[r].out.st = "ok"
                  /\ Envelope(r).status = IF slots[r].op = "create" THEN 201 ELSE 200

C8_Witness ==
    \E r \in Slot, q \in Slot :
        /\ slots[r].op = "create" /\ Done(r) /\ Envelope(r).status = 201
        /\ slots[q].op = "getAll" /\ Done(q) /\ Envelope(q).status = 200
        /\ Envelope(q).data = ListData(<<>>)

(* C9: a create request whose body lacks a non-empty name or email, or    *)
(* has no body, is answered 400 with success = false, data = null and     *)
(* the error's message, and persists nothing; a request with both never   *)
(* gets the validation 400; no stored record lacks a name or an email.    *)
C9_ValidationIs400 ==
    /\ \A r \in Slot :
          (slots[r].op = "create" /\ Done(r)) =>
              IF LacksRequired(slots[r].body)
              THEN /\ slots[r].sent = <<sendResponse(400, FALSE, slots[r].out.msg, NullData)>>
                   /\ slots[r].out.st = "err"
                   /\ slots[r].out.msg \in {RequiredMsg, DestructureMsg}
                   /\ slots[r].port = NotCalled
                   /\ slots[r].idx = 0
              ELSE ~(Envelope(r).status = 400 /\ Envelope(r).message = RequiredMsg)
    /\ \A i \in 1..Len(users) : ~Falsy(users[i].name) /\ ~Falsy(users[i].email)
    /\ \A i \in 1..Len(docs) : ~Falsy(docs[i].name) /\ ~Falsy(docs[i].email)

C9_Witness ==
    \E r \in Slot, q \in Slot :
        /\ slots[r].op = "create" /\ Done(r) /\ slots[r].body = NoBody
        /\ Envelope(r).status = 400
        /\ slots[q].op = "create" /\ Done(q) /\ Envelope(q).status = 201

NotFoundEnvelope == sendResponse(404, FALSE, NotFoundMsg, NullData)

(* C10: getById answers 404 'User not found' with success = false and     *)
(* data = null exactly when findById returned null; with the Mongo        *)
(* adapter a malformed id and a well-formed id that names no document     *)
(* get that same response.                                                *)
C10_NotFoundIs404 ==
    \A r \in Slot :
        (slots[r].op = "getById" /\ Done(r)) =>
            /\ (slots[r].sent = <<NotFoundEnvelope>>)
                  <=> (slots[r].port.st = "ok" /\ slots[r].port.val = <<>>)
            /\ Envelope(r).status = 404 => slots[r].sent = <<NotFoundEnvelope>>
            /\ (adapter = "mongo" /\ CastObjectId(slots[r].id) = <<>>)
                  => slots[r].sent = <<NotFoundEnvelope>>
            /\ ( /\ adapter = "mongo" /\ CastObjectId(slots[r].id) # <<>>
                 /\ \A i \in 1..Len(docs) : docs[i]._id # CastObjectId(slots[r].id)[1] )
                  => slots[r].sent = <<NotFoundEnvelope>>

C10_Witness ==
    \E r \in Slot, q \in Slot :
        /\ adapter = "mongo" /\ docs # <<>>
        /\ slots[r].op = "getById" /\ Done(r) /\ CastObjectId(slots[r].id) = <<>>
        /\ slots[q].op = "getById" /\ Done(q) /\ CastObjectId(slots[q].id) # <<>>
        /\ slots[q].storeErr = <<>>
        /\ slots[r].sent = slots[q].sent
        /\ slots[r].sent = <<NotFoundEnvelope>>

(* C11: every invocation of handle, getAll or getById writes exactly one   *)
(* envelope: none while its use case has not settled, one when it         *)
(* completes, whether the use case returned or threw, and at no time more *)
(* than one; and every invocation whose port call completes does          *)
(* complete.                                                              *)
C11_ExactlyOneResponse ==
    /\ [](\A r \in Slot :
            /\ Len(slots[r].sent) <= 1
            /\ slots[r].pc = "await" => slots[r].sent = <<>>
            /\ Done(r) => Len(slots[r].sent) = 1)
    /\ \A r \in Slot : (slots[r].pc = "await") ~> Done(r)

C11_Witness ==
    \E a \in Slot, b \in Slot :
        /\ slots[a].op = "getById" /\ Done(a) /\ slots[a].out = Thrown(NotFoundMsg)
        /\ Len(slots[a].sent) = 1
        /\ slots[b].op = "create" /\ Done(b) /\ slots[b].port.st = "err"
        /\ Len(slots[b].sent) = 1


(* the fields of the JSON body of an envelope; the status travels apart *)
BodyFields(e) == DOMAIN e \ {"status"}

(* C12: every response written by a controller, by the root endpoint or  *)
(* by the 404 handler is an envelope with exactly the fields success,    *)
(* message and data; success is true exactly when the status is 200 or   *)
(* 201; a failure has data = null and, from a controller, the message of *)
(* the error caught.                                                     *)
C12_EnvelopeShape ==
    \A r \in Slot :
        (Done(r) /\ slots[r].op \in ControllerOps \cup {"root", "notFound"}) =>
            \A i \in 1..Len(slots[r].sent) :
                LET e == slots[r].sent[i]
                IN  /\ BodyFields(e) = {"success", "message", "data"}
                    /\ e.success \in BOOLEAN
                    /\ e.success <=> e.status \in {200, 201}
                    /\ ~e.success =>
                          /\ e.data = NullData
                          /\ slots[r].op \in ControllerOps =>
                                /\ slots[r].out.st = "err"
                                /\ e.message = slots[r].out.msg

C12_Witness ==
    \E a \in Slot, b \in Slot :
        /\ slots[a].op = "notFound" /\ Done(a) /\ ~Envelope(a).success
        /\ slots[b].op = "getAll" /\ Done(b) /\ Envelope(b).status = 500
        /\ Envelope(b).message = StoreDownMsg

(* the route table: the handler of a request line, "none" when the line  *)
(* matches no route                                                      *)
RouteTable(line) ==
    CASE line.method = "POST" /\ line.mount = UsersMount /\ line.rest = <<>> -> "create"
      [] line.method = "GET" /\ line.mount = UsersMount /\ line.rest = <<>> -> "getAll"
      [] line.method = "GET" /\ line.mount = UsersMount /\ Len(line.rest) = 1 -> "getById"
      [] line.method = "GET" /\ line.mount = "" /\ line.rest = <<>> -> "root"
      [] OTHER -> "none"

(* C18: a request whose method and path match none of POST and GET       *)
(* /api/v1/users, GET /api/v1/users/:id and GET / is answered 404 with   *)
(* success = false, message 'Route not found' and data = null; a request *)
(* that matches one of them reaches exactly its handler and never the    *)
(* 404 handler.                                                          *)
C18_UnmatchedIs404 ==
    \A r \in Slot :
        slots[r].op # "none" =>
            IF RouteTable(slots[r].line) = "none"
            THEN /\ Done(r)
                 /\ slots[r].sent = <<sendResponse(404, FALSE, RouteNotFoundMsg, NullData)>>
            ELSE /\ slots[r].op = RouteTable(slots[r].line)
                 /\ \A i \in 1..Len(slots[r].sent) :
                       slots[r].sent[i] # sendResponse(404, FALSE, RouteNotFoundMsg, NullData)


(* C13: under either adapter and any interleaving of create requests, no *)
(* two persisted users have the same email.                              *)
C13_EmailsUnique ==
    /\ \A i, j \in 1..Len(users) : users[i].email = users[j].email => i = j
    /\ \A i, j \in 1..Len(docs) : docs[i].email = docs[j].email => i = j

(* C14: on the in-memory adapter the k-th create receives id k: the      *)
(* stored ids are 1, 2, ... in order, the counter is the number of       *)
(* records plus one, every successful create returns the id of its own   *)
(* position, and a rejected create consumes none, under any interleaving.*)
C14_SequentialIds ==
    adapter = "memory" =>
        /\ \A k \in 1..Len(users) : users[k].id = NumId(k)
        /\ currentId = Len(users) + 1
        /\ Len(users) = Len(created)
        /\ \A r \in Slot :
              slots[r].op = "create" =>
                  /\ slots[r].port.st = "ok" =>
                        /\ slots[r].idx \in 1..Len(users)
                        /\ slots[r].port.val[1].id = NumId(slots[r].idx)
                        /\ slots[r].idx = slots[r].seen + 1
                  /\ LacksRequired(slots[r].body) =>
                        /\ slots[r].idx = 0
                        /\ slots[r].port = NotCalled

C14_Witness ==
    \E a \in Slot, b \in Slot :
        /\ adapter = "memory" /\ Len(users) = MaxUsers
        /\ slots[a].op = "create" /\ Done(a) /\ slots[a].out.st = "ok"
        /\ slots[a].out.val[1].id = NumId(MaxUsers)
        /\ slots[b].op = "create" /\ Done(b) /\ LacksRequired(slots[b].body)
        /\ a \in slots[b].after

(* C15: create never mutates its input: once the port call has settled,  *)
(* with a result or with an error, the entity handed to it is as it was  *)
(* when it was handed over, its id still null; the entity returned is    *)
(* another one, carrying the assigned id and the same name, email, role. *)
C15_CreateLeavesInput ==
    \A r \in Slot :
        (slots[r].op = "create" /\ slots[r].port.st \in {"ok", "err"}) =>
            /\ slots[r].entity = slots[r].given
            /\ slots[r].entity[1].id = NullId
            /\ slots[r].entity[1].name = slots[r].body.name
            /\ slots[r].entity[1].email = slots[r].body.email
            /\ slots[r].port.st = "ok" =>
                  /\ slots[r].port.val[1].id # NullId
                  /\ slots[r].port.val[1] # slots[r].entity[1]
                  /\ slots[r].port.val[1].name = slots[r].entity[1].name
                  /\ slots[r].port.val[1].email = slots[r].entity[1].email
                  /\ slots[r].port.val[1].role = slots[r].entity[1].role

C15_Witness ==
    \E a \in Slot, b \in Slot :
        /\ slots[a].op = "create" /\ slots[a].port.st = "ok"
        /\ slots[a].entity # <<>> /\ slots[a].port.val[1].id = StrId(OidHex(1))
        /\ slots[b].op = "create" /\ slots[b].port.st = "err"
        /\ slots[b].entity # <<>> /\ slots[b].entity[1].id = NullId

(* C16: a create with non-empty name and email builds the entity with    *)
(* role = data.role whenever data.role is neither null nor undefined,    *)
(* the empty string included, and with role "user" only when it is null  *)
(* or undefined; the DTO returned carries that role.                     *)
C16_RoleDefaultsOnlyWhenAbsent ==
    \A r \in Slot :
        (slots[r].op = "create" /\ slots[r].entity # <<>>) =>
            LET role == IF slots[r].body.role \in {Undefined, Null} THEN "user"
                        ELSE slots[r].body.role
            IN  /\ slots[r].given[1].role = role
                /\ (Done(r) /\ slots[r].out.st = "ok") => slots[r].out.val[1].role = role


DTOFields == {"id", "name", "email", "role"}

(* C17: UserMapper.toDTO gives, for every entity, a DTO with exactly the *)
(* fields id, name, email and role, each copied from the entity; two     *)
(* entities that differ only in createdAt map to equal DTOs, and the     *)
(* results of CreateUser, GetAllUsers and GetUserById for them are equal *)
(* and made of such DTOs only.                                           *)
C17_DTOHidesCreatedAt ==
    twin.op = "map" =>
        /\ DOMAIN twin.dtoA = DTOFields
        /\ \A f \in DTOFields : twin.dtoA[f] = twin.a[f]
        /\ twin.dtoA = twin.dtoB
        /\ twin.createA = twin.createB
        /\ twin.allA = twin.allB
        /\ twin.oneA = twin.oneB
        /\ \A out \in {twin.createA, twin.allA, twin.oneA} :
              /\ out.st = "ok"
              /\ \A i \in 1..Len(out.val) : DOMAIN out.val[i] = DTOFields

C17_Witness ==
    /\ twin.op = "map"
    /\ twin.a.createdAt # twin.b.createdAt
    /\ twin.a.id = StrId(OidHex(1))
    /\ twin.dtoA = UserDTO(StrId(OidHex(1)), "n", "e2", "admin")


(* two requests that were in flight at the same time *)
Overlapped(a, b) == a # b /\ a \notin slots[b].after /\ b \notin slots[a].after

(* two completed, valid create requests for one email, served by the     *)
(* store (without a lost connection) while both were in flight, the      *)
(* email not being stored before the first of them was served            *)
RacedCreates(a, b) ==
    /\ adapter = "mongo"
    /\ Overlapped(a, b)
    /\ \A r \in {a, b} :
          /\ slots[r].op = "create" /\ Done(r)
          /\ ~LacksRequired(slots[r].body)
          /\ slots[r].storeErr # <<StoreDownMsg>>
    /\ slots[a].body.email = slots[b].body.email
    /\ slots[a].seen <= slots[b].seen
    /\ \A k \in 1..slots[a].seen : created[k].email # slots[a].body.email

(* C19: with the Mongo adapter, when two create requests with the same   *)
(* email interleave at the store await, exactly one record with that     *)
(* email is persisted and exactly one request is answered 201; the other *)
(* gets a failure envelope (success = false, data = null) carrying the   *)
(* store's error message, and has stored nothing.                        *)
C19_OneWinnerPerEmail ==
    \A a \in Slot, b \in Slot :
        RacedCreates(a, b) =>
            /\ Cardinality({i \in 1..Len(docs) : docs[i].email = slots[a].body.email}) = 1
            /\ Envelope(a).status = 201 /\ Envelope(a).success
            /\ slots[a].idx > 0
            /\ Envelope(b).status # 201
            /\ ~Envelope(b).success
            /\ Envelope(b).data = NullData
            /\ slots[b].storeErr = <<DuplicateKeyMsg>>
            /\ Envelope(b).message = slots[b].storeErr[1]
            /\ slots[b].idx = 0

C19_Witness ==
    \E a \in Slot, b \in Slot :
        /\ RacedCreates(a, b)
        /\ slots[a].line = slots[b].line
        /\ Envelope(b).message = DuplicateKeyMsg


(* C20: with the in-memory adapter, concurrent requests interleaving at  *)
(* the port await only, every response and the store are those of the   *)
(* same requests executed one at a time in the order of their port      *)
(* calls.                                                                *)
C20_SerialEquivalent ==
    adapter = "memory" =>
        /\ users = serial.users
        /\ currentId = serial.currentId
        /\ \A r \in Slot :
              (Done(r) /\ slots[r].op \in ControllerOps) => slots[r].sent = slots[r].expect

C20_Witness ==
    \E a \in Slot, b \in Slot :
        /\ adapter = "memory" /\ Overlapped(a, b)
        /\ slots[a].op = "getAll" /\ Done(a)
        /\ Len(slots[a].out.val) < Len(users)
        /\ slots[b].op = "create" /\ Done(b) /\ slots[b].idx = Len(users)
        /\ slots[a].sent = slots[a].expect

----------------------------------------------------------------------------
(* the entities a findAll or findById just returned *)
ReadEntities ==
    IF twin.op \in {"findAll", "findById"} /\ twin.res.st = "ok"
    THEN twin.res.val ELSE <<>>

(* createdAt of the k-th record as the store holds it *)
StoredCreatedAt(k) ==
    IF adapter = "memory" THEN users[k].createdAt ELSE docs[k].createdAt

(* C21: on each adapter the entity create returned carries the createdAt  *)
(* persisted with its record, and every later findById or findAll returns *)
(* that record with the same createdAt, whenever the read is made.        *)
C21_CreatedAtStable ==
    /\ \A k \in 1..Len(created) : created[k].createdAt = StoredCreatedAt(k)
    /\ \A i \in 1..Len(ReadEntities) : \A k \in 1..Len(created) :
           ReadEntities[i].id = created[k].id
               => ReadEntities[i].createdAt = created[k].createdAt

(* the records, their order and the id counters of both stores *)
Store == <<users, currentId, docs, nextOid>>

(* slot r's request takes this step: it arrives, its port call is served *)
(* or it is answered                                                     *)
Moves(r) == slots'[r].pc # slots[r].pc \/ slots'[r].port # slots[r].port

(* C22: GetAllUsers.execute and GetUserById.execute have no side effects: *)
(* no step of a getAll or getById request, succeeding or failing, changes *)
(* the store's records, their order or the next id.                       *)
C22_ReadsLeaveStore ==
    [][\A r \in Slot :
          Moves(r) /\ slots'[r].op \in {"getAll", "getById"} => Store' = Store]_vars

C22_Witness ==
    \E r, q \in Slot :
        /\ ~StoreIsEmpty
        /\ Done(r) /\ slots[r].op = "getById" /\ slots[r].out.st = "err"
        /\ Done(q) /\ slots[q].op = "getAll" /\ slots[q].out.st = "ok"
        /\ slots[q].out.val # <<>>

(* the completed getAll requests that returned a list *)
ListedBy(r) == Done(r) /\ slots[r].op = "getAll" /\ slots[r].out.st = "ok"

(* C23: GetAllUsers.execute returns the DTOs in the order in which the    *)
(* adapter's findAll returned the entities; on the in-memory adapter that *)
(* is insertion order: the DTO at position k has id k and is the DTO of   *)
(* the k-th successful create.                                            *)
C23_GetAllKeepsOrder ==
    \A r \in Slot :
        ListedBy(r) =>
            LET l == slots[r].out.val
                p == slots[r].port.val
            IN  /\ Len(l) = Len(p)
                /\ \A k \in 1..Len(l) :
                       /\ l[k].id = p[k].id /\ l[k].name = p[k].name
                       /\ l[k].email = p[k].email /\ l[k].role = p[k].role
                       /\ adapter = "memory" => l[k].id = NumId(k) /\ l[k] = created[k]

C23_Witness ==
    \E r \in Slot :
        /\ adapter = "memory" /\ ListedBy(r)
        /\ Len(slots[r].out.val) = MaxUsers
        /\ slots[r].out.val[1] # slots[r].out.val[2]

IsPrefix(s, t) == Len(s) <= Len(t) /\ \A k \in 1..Len(s) : t[k] = s[k]

(* C24: the in-memory adapter's collection is append-only: every step     *)
(* keeps the stored records, in their order, as a prefix of the new       *)
(* collection, and the result of a GetAllUsers is a prefix of the result  *)
(* of every GetAllUsers that started after it had completed.              *)
C24_AppendOnly ==
    /\ [][adapter = "memory" => IsPrefix(users, users')]_vars
    /\ [](\A a, b \in Slot :
            adapter = "memory" /\ ListedBy(a) /\ ListedBy(b) /\ a \in slots[b].after
                => IsPrefix(slots[a].out.val, slots[b].out.val))

C24_Witness ==
    \E a, b \in Slot :
        /\ adapter = "memory" /\ ListedBy(a) /\ ListedBy(b) /\ a \in slots[b].after
        /\ Len(slots[a].out.val) = 1
        /\ Len(slots[b].out.val) = 2
        /\ Len(users) = 2

(* C25: no retries.  A create request has called the port once if its     *)
(* input passed validation and not at all otherwise, a getAll or getById  *)
(* request has called it once; while a request whose port call failed     *)
(* awaits its answer the port is not called again, and the failure is     *)
(* reported in one response.                                              *)
C25_NoRetries ==
    /\ [](\A r \in Slot :
            /\ slots[r].calls <= 1
            /\ slots[r].op = "create"
                   => slots[r].calls = IF LacksRequired(slots[r].body) THEN 0 ELSE 1
            /\ slots[r].op \in {"getAll", "getById"} => slots[r].calls = 1
            /\ Done(r) /\ slots[r].port.st = "err"
                   => /\ Len(slots[r].sent) = 1
                      /\ slots[r].sent[1].success = FALSE
                      /\ slots[r].sent[1].message = slots[r].port.msg)
    /\ [][\A r \in Slot :
            slots[r].pc = "await" /\ slots[r].port.st = "err"
                => /\ slots'[r].calls = slots[r].calls
                   /\ slots'[r].port = slots[r].port]_vars

C25_Witness ==
    \E a, b \in Slot :
        /\ Done(a) /\ slots[a].op = "create" /\ slots[a].port.st = "err"
        /\ slots[a].calls = 1 /\ Len(slots[a].sent) = 1
        /\ Done(b) /\ slots[b].op = "create" /\ slots[b].body.has
        /\ LacksRequired(slots[b].body) /\ slots[b].calls = 0

(* the ids of the stored records, as the adapter hands them out *)
StoredIds ==
    IF adapter = "memory" THEN [k \in 1..Len(users) |-> users[k].id]
    ELSE [k \in 1..Len(docs) |-> StrId(OidHex(docs[k]._id))]

(* C26: every entity the port's create, findAll or findById resolved with *)
(* has a non-null id that is the id of exactly one stored record; the     *)
(* entity CreateUser built had id null when create was called; and no DTO *)
(* a use case returned has a null id.                                     *)
C26_ReturnedIdsArePersisted ==
    \A r \in Slot :
        /\ slots[r].port.st = "ok" =>
               \A i \in 1..Len(slots[r].port.val) :
                   /\ slots[r].port.val[i].id # NullId
                   /\ Cardinality({k \in 1..Len(StoredIds) :
                                      StoredIds[k] = slots[r].port.val[i].id}) = 1
        /\ slots[r].given # <<>> => slots[r].given[1].id = NullId
        /\ slots[r].out.st = "ok" =>
               \A i \in 1..Len(slots[r].out.val) : slots[r].out.val[i].id # NullId

C26_Witness ==
    \E a, b \in Slot :
        /\ Done(a) /\ slots[a].op = "create" /\ slots[a].out.st = "ok"
        /\ slots[a].given # <<>> /\ slots[a].port.val[1].id # NullId
        /\ Done(b) /\ slots[b].op = "getById" /\ slots[b].out.st = "ok"
        /\ slots[b].out.val[1].id = slots[a].out.val[1].id

(* create request c had sent its 201 when request g arrived *)
CreatedBefore(c, g) ==
    /\ c \in slots[g].after
    /\ slots[c].op = "create" /\ Done(c) /\ slots[c].out.st = "ok"
    /\ slots[c].sent[1].status = 201

(* C27: read-your-writes on the in-memory adapter.  If a create request   *)
(* had sent its 201 with DTO d before a getAll or getById request         *)
(* arrived, the getAll result contains d and getById of d.id answers 200  *)
(* with d, whatever other requests ran in between.                        *)
C27_ReadYourWrites ==
    \A c, g \in Slot :
        adapter = "memory" /\ CreatedBefore(c, g) /\ Done(g) =>
            LET d == slots[c].out.val[1]
            IN  /\ slots[g].op = "getAll" =>
                       /\ slots[g].out.st = "ok"
                       /\ \E i \in 1..Len(slots[g].out.val) : slots[g].out.val[i] = d
                /\ slots[g].op = "getById" /\ slots[g].id = StrId(IdToString(d.id)) =>
                       /\ slots[g].out = Returned("dto", <<d>>)
                       /\ Len(slots[g].sent) = 1
                       /\ slots[g].sent[1].status = 200
                       /\ slots[g].sent[1].data = DtoData(d)

C27_Witness ==
    \E c, g \in Slot :
        /\ adapter = "memory" /\ CreatedBefore(c, g) /\ Done(g)
        /\ slots[g].op = "getById"
        /\ slots[g].id = StrId(IdToString(slots[c].out.val[1].id))
        /\ Len(users) = 2
        /\ slots[g].sent[1].status = 200

NonEmpty(v) == v \notin {Undefined, Null, ""}

(* C28: every record persisted through CreateUser has a non-empty name, a *)
(* non-empty email and a non-empty role: validation rejects an empty name *)
(* or email before the port call, and an absent or empty role is stored   *)
(* as "user".                                                             *)
C28_PersistedFieldsNonEmpty ==
    /\ \A k \in 1..Len(users) :
           NonEmpty(users[k].name) /\ NonEmpty(users[k].email) /\ NonEmpty(users[k].role)
    /\ \A k \in 1..Len(docs) :
           NonEmpty(docs[k].name) /\ NonEmpty(docs[k].email) /\ NonEmpty(docs[k].role)
    /\ \A r \in Slot :
           slots[r].op = "create" /\ Done(r) /\ slots[r].out.st = "ok"
               /\ ~NonEmpty(slots[r].body.role)
               => slots[r].out.val[1].role = "user"

C28_Witness ==
    \E a, b \in Slot :
        /\ ~StoreIsEmpty
        /\ Done(a) /\ slots[a].op = "create" /\ slots[a].out.st = "ok"
        /\ slots[a].body.role = "" /\ slots[a].out.val[1].role = "user"
        /\ Done(b) /\ slots[b].op = "create" /\ slots[b].body.has
        /\ slots[b].body.email = "" /\ slots[b].out.st = "err"

(* C29: UserMapper.toEntity(record) returns, for a record with or without *)
(* id, role and createdAt, an entity whose fields equal the record's      *)
(* where the record has them and are left undefined where it has not.     *)
C29_ToEntityKeepsFields ==
    twin.op = "toEntity" =>
        /\ twin.entity.id = twin.rec.id
        /\ twin.entity.name = twin.rec.name
        /\ twin.entity.email = twin.rec.email
        /\ twin.entity.role = twin.rec.role
        /\ twin.entity.createdAt = twin.rec.createdAt

(* C30: isAdmin() is true exactly when the entity's role is the string    *)
(* "admin", spelled so and nothing else; entities that agree on role get  *)
(* the same answer, and the call leaves the entity as it was.             *)
C30_IsAdminIffRoleAdmin ==
    twin.op = "isAdmin" =>
        /\ twin.result = (twin.a.role = "admin")
        /\ twin.a.role \in {"Admin", "ADMIN", " admin", "admin ", "user", "", Undefined}
               => twin.result = FALSE
        /\ twin.after = twin.a

C30_Witness ==
    /\ twin.op = "isAdmin"
    /\ twin.a.role = "Admin"
    /\ twin.result = FALSE
    /\ twin.a.id = NumId(1)

=============================================================================
